---- MODULE Spec2Model ----
(***************************************************************************)
(* A model of another-redis-benchmark (the variant with latency            *)
(* statistics): main starts numClients clientWorker goroutines and one     *)
(* reportProgress goroutine, sleeps, closes the stop channel, joins the    *)
(* workers on a WaitGroup and prints the final summary.                    *)
(*                                                                         *)
(* float64 values are modelled exactly: a ratio is a fraction [num, den]   *)
(* (den = 0 is the NaN that 0.0/0.0 produces), a latency is a whole number *)
(* of milliseconds, a printed "%.2f" value is a whole number of hundredths.*)
(***************************************************************************)
EXTENDS Integers, FiniteSets, Sequences, TLC

\* ------------------------------------------------------------- bounds
NumClients == 2     \* -clients
MaxOps == 2         \* iterations all workers may begin in one run
DrawDen == 3        \* rand.Float64() draws are 0/DrawDen .. (DrawDen-1)/DrawDen
MaxRatio == 2       \* raw -set/-get/-del values of the selector inputs
MaxKeys == 11       \* -keys values of the key generator's inputs
RunKeys == 2        \* -keys of the benchmark runs

\* ---------------------------------------------------------- constants
MaxFloat64 == 1000000   \* math.MaxFloat64: above every measured duration

Free == 0
Clients == 1..NumClients
Kinds == {"set", "get", "del"}
\* the durations time.Since(start) measures, in ms
Latencies == {1, 2}
Draws == 0..(DrawDen - 1)

\* The -set/-get/-del triples the runs are started with.
RatioInputs == {<<1, 1, 1>>, <<1, 0, 0>>, <<0, 0, 0>>}

\* Strings are sequences of characters.  The -prefix values tried.
Prefixes == {<<>>, <<"k", "_">>, <<"b">>, <<"k", "1">>, <<"0">>}
RunPrefix == <<"k", "_">>

VARIABLES
    mainPc,      \* position of main
    spawnI,      \* loop index i of main's spawn loop
    pingErr,     \* main's err of rdb.Ping is not nil
    numKeys, keyPrefix,   \* package-level -keys and -prefix
    keys,        \* main's keys
    setRatio, getRatio, delRatio,   \* package-level ratios, fractions
    totalRatio,  \* main's local totalRatio (meaningful once mainPc # "normalize")
    wg,          \* WaitGroup counter
    stop,        \* TRUE once the stop channel is closed
    lock,        \* holder of the shared counter mutex, Free if none
    stats,       \* setStats/getStats/delStats: kind -> operationStats
    progress,    \* progress[i]: worker -> kind -> count
    total,       \* totalSet/totalGet/totalDel: kind -> count
    pc,          \* position of each clientWorker
    kind,        \* the operation the worker's current iteration selected
    dur,         \* the worker's local duration
    reg,         \* the fields updateStats has read and not yet written back
    reporterPc,  \* position of reportProgress
    crashed,     \* the runtime has killed the process
    printedTotals, \* "SET/GET/DEL operations: %d" lines, -1 until printed
    printedLat,  \* "Latency (ms)" lines in hundredths, -1 until printed
    ops,         \* iterations begun so far
    err,         \* the worker's local err of the call that succeeded
    succeeded,   \* log: kind -> execute calls that returned ok or redis.Nil
    failures,    \* log: execute calls that returned any other error
    recorded,    \* log: kind -> latency -> number of updateStats calls made
    selDraw, selKind  \* the selector's last input and output

vars == <<mainPc, spawnI, pingErr, numKeys, keyPrefix, keys, setRatio, getRatio, delRatio, totalRatio, wg, stop,
          lock, stats, progress, total, pc, kind, dur, reg, reporterPc,
          crashed, printedTotals, printedLat, ops, err, succeeded, failures,
          recorded,
          selDraw, selKind>>

setupVars == <<pingErr, numKeys, keyPrefix, keys>>
mainVars == <<mainPc, spawnI, setupVars, setRatio, getRatio, delRatio,
              totalRatio, printedTotals, printedLat>>
selVars == <<selDraw, selKind>>

\* ------------------------------------------------------------ floats
Frac(n, d) == [num |-> n, den |-> d]
\* a / t for a fraction a and a whole t; 0/0 is NaN (den = 0)
FDiv(a, t) == Frac(a.num, a.den * t)
FAdd(a, b) == IF a.den = b.den THEN Frac(a.num + b.num, a.den)
              ELSE Frac(a.num * b.den + b.num * a.den, a.den * b.den)
IsNaN(a) == a.den = 0
\* a < b on float64: false when either side is NaN
FLess(a, b) == ~IsNaN(a) /\ ~IsNaN(b) /\ a.num * b.den < b.num * a.den

\* "%.2f" of num/den, in hundredths, rounded to nearest
Fmt2(n, d) == (200 * n + d) \div (2 * d)

\* ---------------------------------------------------------- selector
Draw(dn) == Frac(dn, DrawDen)

Select_BoundaryEarlier(op, sR, gR) ==
    IF ~FLess(sR, op) /\ ~IsNaN(sR) THEN "set"
    ELSE IF ~FLess(FAdd(sR, gR), op) /\ ~IsNaN(gR) THEN "get"
    ELSE "del"

Select_Inverted(op, sR, gR) ==
    IF FLess(sR, op) THEN "set"
    ELSE IF FLess(op, FAdd(sR, gR)) THEN "get"
    ELSE "del"

\* the if / else if / else chain of clientWorker on op
Select(op, sR, gR) ==
    IF FLess(op, sR) THEN "set"
    ELSE IF FLess(op, FAdd(sR, gR)) THEN "get"
    ELSE "del"

\* ------------------------------------------------ execution outcomes
\* What a go-redis call returns: "ok" (err == nil), "nil" (redis.Nil, which
\* only GET returns) or "err" (any other error).
Outcomes(k) == IF k = "get" THEN {"ok", "nil", "err"} ELSE {"ok", "err"}

Success_All(k, o) == TRUE
Success_NilIsError(k, o) == o = "ok"

\* the conditions of the three "if err ..." statements
Success(k, o) ==
    IF k = "get" THEN o = "ok" \/ o = "nil" ELSE o = "ok"

\* ------------------------------------------------------ operationStats
NewStats == [minTime |-> MaxFloat64, maxTime |-> 0, totalTime |-> 0,
             count |-> 0, mu |-> Free]
NoReg == [minTime |-> 0, maxTime |-> 0, totalTime |-> 0, count |-> 0]
Fields(s) == [minTime |-> s.minTime, maxTime |-> s.maxTime,
              totalTime |-> s.totalTime, count |-> s.count]

\* the body of updateStats applied to the fields read
Updated_MinOverwritten(r, d) ==
    [minTime |-> d,
     maxTime |-> IF d > r.maxTime THEN d ELSE r.maxTime,
     totalTime |-> r.totalTime + d,
     count |-> r.count + 1]

Updated_CountLost(r, d) ==
    [minTime |-> IF d < r.minTime THEN d ELSE r.minTime,
     maxTime |-> IF d > r.maxTime THEN d ELSE r.maxTime,
     totalTime |-> r.totalTime + d,
     count |-> r.count]

Updated(r, d) ==
    [minTime |-> IF d < r.minTime THEN d ELSE r.minTime,
     maxTime |-> IF d > r.maxTime THEN d ELSE r.maxTime,
     totalTime |-> r.totalTime + d,
     count |-> r.count + 1]

MuAvailable_NoMutex(k) == TRUE

\* stats.mu.Lock() returns only when the mutex is free
MuAvailable_Global(k) == \A j \in Kinds : stats[j].mu = Free

MuAvailable(k) == stats[k].mu = Free

LockAvailable == lock = Free

IncTotal_Twice(t, k) == [t EXCEPT ![k] = @ + 2]

\* *totalSet++ / *totalGet++ / *totalDel++
IncTotal(t, k) == [t EXCEPT ![k] = @ + 1]

\* progress["set"]++ and the like, on the worker's own map
IncProgress_Shared(p, w, k) == [p EXCEPT ![1][k] = @ + 1]

IncProgress(p, w, k) == [p EXCEPT ![w][k] = @ + 1]

WaitReturns_NoJoin == TRUE

\* wg.Wait() returns when the counter is zero
WaitReturns == wg = 0

StopObserved_Always == TRUE

\* case <-stop: is ready once the channel is closed
StopObserved_Never == FALSE

StopObserved == stop

\* the process is alive: not killed by the runtime, main has not returned
\* and log.Fatalf has not exited
Alive == ~crashed /\ mainPc \notin {"done", "fatal"}

\* ------------------------------------------------------- generateKeys
Digits == <<"0", "1", "2", "3", "4", "5", "6", "7", "8", "9">>

\* the %d verb: the decimal digits of n >= 0, most significant first
RECURSIVE Itoa(_)
Itoa(n) ==
    IF n < 10 THEN <<Digits[n + 1]>>
    ELSE Append(Itoa(n \div 10), Digits[(n % 10) + 1])

\* fmt.Sprintf("%s%d", prefix, i)
Sprintf(prefix, i) == prefix \o Itoa(i)

generateKeys_OneBased(n, prefix) == [i \in 1..n |-> Sprintf(prefix, i)]

\* make([]string, numKeys) and the loop that fills keys[i] for i in 0..numKeys-1
\* (the sequence is indexed from 1, so keys[i] of the code is element i + 1)
generateKeys(n, prefix) == [i \in 1..n |-> Sprintf(prefix, i - 1)]

\* ---------------------------------------------------------------- Init
ZeroCounts == [k \in Kinds |-> 0]

Init ==
    /\ mainPc = "normalize"
    /\ spawnI = 0
    /\ pingErr = FALSE
    /\ numKeys = RunKeys
    /\ keyPrefix = RunPrefix
    /\ keys = <<>>
    /\ \E r \in RatioInputs :
          /\ setRatio = Frac(r[1], 1)
          /\ getRatio = Frac(r[2], 1)
          /\ delRatio = Frac(r[3], 1)
    /\ totalRatio = 0
    /\ wg = 0
    /\ stop = FALSE
    /\ lock = Free
    /\ stats = [k \in Kinds |-> NewStats]
    /\ progress = [w \in Clients |-> ZeroCounts]
    /\ total = ZeroCounts
    /\ pc = [w \in Clients |-> "unspawned"]
    /\ kind = [w \in Clients |-> "none"]
    /\ dur = [w \in Clients |-> 0]
    /\ reg = [w \in Clients |-> NoReg]
    /\ reporterPc = "unstarted"
    /\ crashed = FALSE
    /\ printedTotals = [k \in Kinds |-> -1]
    /\ printedLat = [k \in Kinds |-> [min |-> -1, avg |-> -1, max |-> -1]]
    /\ ops = 0
    /\ err = [w \in Clients |-> "none"]
    /\ succeeded = ZeroCounts
    /\ failures = 0
    /\ recorded = [k \in Kinds |-> [d \in Latencies |-> 0]]
    /\ selDraw = -1
    /\ selKind = "none"

\* ---------------------------------------------------------------- main
workerVars == <<wg, stop, lock, stats, progress, total, pc, kind, dur, reg,
                ops, err, succeeded, failures, recorded>>

\* totalRatio := set + get + del; each ratio /= totalRatio
Normalize ==
    /\ mainPc = "normalize"
    /\ LET t == setRatio.num + getRatio.num + delRatio.num IN
          /\ totalRatio' = t
          /\ setRatio' = FDiv(setRatio, t)
          /\ getRatio' = FDiv(getRatio, t)
          /\ delRatio' = FDiv(delRatio, t)
    /\ mainPc' = "ping"
    /\ UNCHANGED <<setupVars, spawnI, printedTotals, printedLat, workerVars,
                   reporterPc, crashed, selVars>>

AfterPing_ErrorIgnored(ok) == "keys"

\* if err := rdb.Ping(ctx).Err(); err != nil { log.Fatalf(...) }
AfterPing(ok) == IF ok THEN "keys" ELSE "fatal"

\* rdb.Ping: log.Fatalf on error
Ping ==
    /\ mainPc = "ping"
    /\ \E ok \in BOOLEAN :
          /\ pingErr' = ~ok
          /\ mainPc' = AfterPing(ok)
    /\ UNCHANGED <<numKeys, keyPrefix, keys, spawnI, setRatio, getRatio, delRatio, totalRatio,
                   printedTotals, printedLat, workerVars, reporterPc, crashed,
                   selVars>>

\* keys := generateKeys(numKeys, keyPrefix)
GenerateKeys ==
    /\ mainPc = "keys"
    /\ keys' = generateKeys(numKeys, keyPrefix)
    /\ mainPc' = "spawn"
    /\ UNCHANGED <<pingErr, numKeys, keyPrefix, spawnI, setRatio, getRatio,
                   delRatio, totalRatio, printedTotals, printedLat, workerVars,
                   reporterPc, crashed, selVars>>

\* one iteration of "for i := 0; i < numClients; i++": wg.Add(1); go clientWorker
Spawn ==
    /\ mainPc = "spawn"
    /\ Alive
    /\ spawnI < NumClients
    /\ wg' = wg + 1
    /\ pc' = [pc EXCEPT ![spawnI + 1] = "top"]
    /\ spawnI' = spawnI + 1
    /\ UNCHANGED <<setupVars, mainPc, setRatio, getRatio, delRatio, totalRatio,
                   printedTotals, printedLat, stop, lock, stats, progress,
                   total, kind, dur, reg, ops, err, succeeded, failures,
                   recorded, reporterPc, crashed, selVars>>

\* the loop ends; go reportProgress(...)
StartReporter ==
    /\ mainPc = "spawn"
    /\ Alive
    /\ spawnI = NumClients
    /\ reporterPc' = "select"
    /\ mainPc' = "sleep"
    /\ UNCHANGED <<setupVars, spawnI, setRatio, getRatio, delRatio, totalRatio,
                   printedTotals, printedLat, workerVars, crashed, selVars>>

\* time.Sleep(testDuration) returns; close(stop)
CloseStop ==
    /\ mainPc = "sleep"
    /\ Alive
    /\ stop' = TRUE
    /\ mainPc' = "wait"
    /\ UNCHANGED <<setupVars, spawnI, setRatio, getRatio, delRatio, totalRatio,
                   printedTotals, printedLat, wg, lock, stats, progress, total,
                   pc, kind, dur, reg, ops, err, succeeded, failures,
                   recorded, reporterPc, crashed, selVars>>

\* wg.Wait()
WgWait ==
    /\ mainPc = "wait"
    /\ Alive
    /\ WaitReturns
    /\ mainPc' = "printTotals"
    /\ UNCHANGED <<setupVars, spawnI, setRatio, getRatio, delRatio, totalRatio,
                   printedTotals, printedLat, workerVars, reporterPc, crashed,
                   selVars>>

\* the Printf lines of the totals
PrintTotals ==
    /\ mainPc = "printTotals"
    /\ Alive
    /\ printedTotals' = total
    /\ mainPc' = "printSET"
    /\ UNCHANGED <<setupVars, spawnI, setRatio, getRatio, delRatio, totalRatio,
                   printedLat, workerVars, reporterPc, crashed, selVars>>

PrintPc(k) == CASE k = "set" -> "printSET" [] k = "get" -> "printGET"
                [] OTHER -> "printDEL"
AfterPrint(k) == CASE k = "set" -> "printGET" [] k = "get" -> "printDEL"
                   [] OTHER -> "done"

Formatted_AvgFromMin(s) ==
    [min |-> Fmt2(s.minTime, 1),
     avg |-> IF s.count > 0 THEN Fmt2(s.totalTime, s.count)
             ELSE Fmt2(s.minTime, 1),
     max |-> Fmt2(s.maxTime, 1)]

\* the line printStats prints: Min=%.2f, Avg=%.2f, Max=%.2f
Formatted(s) ==
    [min |-> Fmt2(s.minTime, 1),
     avg |-> IF s.count > 0 THEN Fmt2(s.totalTime, s.count) ELSE 0,
     max |-> Fmt2(s.maxTime, 1)]

\* printStats(operation, stats): lock, format, print, unlock
PrintStats(k) ==
    /\ mainPc = PrintPc(k)
    /\ Alive
    /\ MuAvailable(k)
    /\ printedLat' = [printedLat EXCEPT ![k] = Formatted(stats[k])]
    /\ mainPc' = AfterPrint(k)
    /\ UNCHANGED <<setupVars, spawnI, setRatio, getRatio, delRatio, totalRatio,
                   printedTotals, workerVars, reporterPc, crashed, selVars>>

\* -------------------------------------------------------- clientWorker
mainAndSel == <<mainVars, selVars>>
logVars == <<succeeded, failures, recorded>>

\* select default: draw op and key, choose the branch, start the call
BeginIteration(w) ==
    /\ pc[w] = "top"
    /\ Alive
    /\ ~StopObserved
    /\ ops < MaxOps
    /\ \E ki \in DOMAIN keys : TRUE
    /\ \E dn \in Draws :
          kind' = [kind EXCEPT ![w] = Select(Draw(dn), setRatio, getRatio)]
    /\ pc' = [pc EXCEPT ![w] = "exec"]
    /\ ops' = ops + 1
    /\ UNCHANGED <<mainAndSel, logVars, wg, stop, lock, stats, progress, total,
                   dur, reg, err, reporterPc, crashed>>

\* case <-stop: return, and the deferred wg.Done()
WorkerStop(w) ==
    /\ pc[w] = "top"
    /\ Alive
    /\ StopObserved
    /\ pc' = [pc EXCEPT ![w] = "stopped"]
    /\ wg' = wg - 1
    /\ UNCHANGED <<mainAndSel, logVars, stop, lock, stats, progress, total,
                   kind, dur, reg, ops, err, reporterPc, crashed>>

\* rdb.Set / rdb.Get / rdb.Del returns; on success duration is measured and
\* updateStats is called, otherwise the iteration ends
ExecReturn(w) ==
    /\ pc[w] = "exec"
    /\ Alive
    /\ \E o \in Outcomes(kind[w]) :
          /\ IF o = "err"
             THEN failures' = failures + 1 /\ succeeded' = succeeded
             ELSE failures' = failures
                  /\ succeeded' = [succeeded EXCEPT ![kind[w]] = @ + 1]
          /\ IF Success(kind[w], o)
             THEN \E d \in Latencies :
                     /\ dur' = [dur EXCEPT ![w] = d]
                     /\ recorded' = [recorded EXCEPT ![kind[w]][d] = @ + 1]
                     /\ pc' = [pc EXCEPT ![w] = "statsLock"]
                     /\ err' = [err EXCEPT ![w] = o]
                     /\ kind' = kind
             ELSE /\ pc' = [pc EXCEPT ![w] = "top"]
                  /\ kind' = [kind EXCEPT ![w] = "none"]
                  /\ UNCHANGED <<dur, recorded, err>>
    /\ UNCHANGED <<mainAndSel, wg, stop, lock, stats, progress, total, reg,
                   ops, reporterPc, crashed>>

\* updateStats: stats.mu.Lock(), then the loads of count, totalTime,
\* minTime, maxTime
StatsLock(w) ==
    /\ pc[w] = "statsLock"
    /\ Alive
    /\ MuAvailable(kind[w])
    /\ stats' = [stats EXCEPT ![kind[w]].mu = w]
    /\ reg' = [reg EXCEPT ![w] = Fields(stats[kind[w]])]
    /\ pc' = [pc EXCEPT ![w] = "statsWrite"]
    /\ UNCHANGED <<mainAndSel, logVars, wg, stop, lock, progress, total, kind,
                   dur, ops, err, reporterPc, crashed>>

StatsWrite_KeepsMutex(w) ==
    /\ pc[w] = "statsWrite"
    /\ Alive
    /\ LET u == Updated(reg[w], dur[w]) IN
          stats' = [stats EXCEPT ![kind[w]] =
                       [minTime |-> u.minTime, maxTime |-> u.maxTime,
                        totalTime |-> u.totalTime, count |-> u.count,
                        mu |-> w]]
    /\ reg' = [reg EXCEPT ![w] = NoReg]
    /\ dur' = [dur EXCEPT ![w] = 0]
    /\ pc' = [pc EXCEPT ![w] = "ctrLock"]
    /\ UNCHANGED <<mainAndSel, logVars, wg, stop, lock, progress, total, kind,
                   ops, err, reporterPc, crashed>>

\* updateStats: the stores of count, totalTime, minTime, maxTime, and the
\* deferred stats.mu.Unlock() on return
StatsWrite(w) ==
    /\ pc[w] = "statsWrite"
    /\ Alive
    /\ LET u == Updated(reg[w], dur[w]) IN
          stats' = [stats EXCEPT ![kind[w]] =
                       [minTime |-> u.minTime, maxTime |-> u.maxTime,
                        totalTime |-> u.totalTime, count |-> u.count,
                        mu |-> Free]]
    /\ reg' = [reg EXCEPT ![w] = NoReg]
    /\ dur' = [dur EXCEPT ![w] = 0]
    /\ pc' = [pc EXCEPT ![w] = "ctrLock"]
    /\ UNCHANGED <<mainAndSel, logVars, wg, stop, lock, progress, total, kind,
                   ops, err, reporterPc, crashed>>

\* lock.Lock()
CtrLock(w) ==
    /\ pc[w] = "ctrLock"
    /\ Alive
    /\ LockAvailable
    /\ lock' = w
    /\ pc' = [pc EXCEPT ![w] = "progInc"]
    /\ UNCHANGED <<mainAndSel, logVars, wg, stop, stats, progress, total, kind,
                   dur, reg, ops, err, reporterPc, crashed>>

\* progress[kind]++
ProgInc(w) ==
    /\ pc[w] = "progInc"
    /\ Alive
    /\ progress' = IncProgress(progress, w, kind[w])
    /\ pc' = [pc EXCEPT ![w] = "totInc"]
    /\ UNCHANGED <<mainAndSel, logVars, wg, stop, lock, stats, total, kind,
                   dur, reg, ops, err, reporterPc, crashed>>

\* *total++; lock.Unlock(); the iteration ends
TotInc(w) ==
    /\ pc[w] = "totInc"
    /\ Alive
    /\ total' = IncTotal(total, kind[w])
    /\ lock' = Free
    /\ pc' = [pc EXCEPT ![w] = "top"]
    /\ kind' = [kind EXCEPT ![w] = "none"]
    /\ err' = [err EXCEPT ![w] = "none"]
    /\ UNCHANGED <<mainAndSel, logVars, wg, stop, stats, progress, dur, reg,
                   ops, reporterPc, crashed>>

\* ------------------------------------------------------ reportProgress
\* case <-ticker.C: the rows are read from progress and the totals without
\* any lock and written to the terminal
ReporterTick ==
    /\ reporterPc = "select"
    /\ Alive
    /\ UNCHANGED vars

\* The tick's unsynchronised read of progress[i] overlaps worker w's write of
\* the same map (a data race): the Go runtime may end the process with
\* "fatal error: concurrent map read and map write".
ReporterRace(w) ==
    /\ reporterPc = "select"
    /\ Alive
    /\ pc[w] = "progInc"
    /\ crashed' = TRUE
    /\ UNCHANGED <<mainAndSel, workerVars, reporterPc>>

\* case <-stop: return
ReporterStop ==
    /\ reporterPc = "select"
    /\ Alive
    /\ stop
    /\ reporterPc' = "returned"
    /\ UNCHANGED <<mainAndSel, workerVars, crashed>>

\* ------------------------------------------------------- specification
MainStep ==
    \/ Normalize
    \/ Ping
    \/ GenerateKeys
    \/ Spawn
    \/ StartReporter
    \/ CloseStop
    \/ WgWait
    \/ PrintTotals
    \/ \E k \in Kinds : PrintStats(k)

WorkerStep(w) ==
    \/ BeginIteration(w)
    \/ WorkerStop(w)
    \/ ExecReturn(w)
    \/ StatsLock(w)
    \/ StatsWrite(w)
    \/ CtrLock(w)
    \/ ProgInc(w)
    \/ TotInc(w)

Next ==
    \/ Normalize
    \/ Ping
    \/ GenerateKeys
    \/ Spawn
    \/ StartReporter
    \/ CloseStop
    \/ WgWait
    \/ PrintTotals
    \/ \E k \in Kinds : PrintStats(k)
    \/ \E w \in Clients : BeginIteration(w)
    \/ \E w \in Clients : WorkerStop(w)
    \/ \E w \in Clients : ExecReturn(w)
    \/ \E w \in Clients : StatsLock(w)
    \/ \E w \in Clients : StatsWrite(w)
    \/ \E w \in Clients : CtrLock(w)
    \/ \E w \in Clients : ProgInc(w)
    \/ \E w \in Clients : TotInc(w)
    \/ ReporterTick
    \/ \E w \in Clients : ReporterRace(w)
    \/ ReporterStop

Spec == Init /\ [][Next]_vars

\* The scheduler runs every goroutine that can run, a pending execute call
\* returns, and a select whose stop case is ready eventually takes it.  The
\* runtime's detection of the racing map access is not subject to fairness.
FairSpec ==
    /\ Spec
    /\ WF_vars(MainStep)
    /\ \A w \in Clients : WF_vars(WorkerStep(w))
    /\ WF_vars(ReporterStop)

\* ------------------------------------------- the selector on its own
\* The selector applied to every draw under every ratio triple up to MaxRatio.
SelInit ==
    /\ mainPc = "normalize"
    /\ spawnI = 0
    /\ pingErr = FALSE
    /\ numKeys = RunKeys
    /\ keyPrefix = RunPrefix
    /\ keys = <<>>
    /\ \E s \in 0..MaxRatio, g \in 0..MaxRatio, d \in 0..MaxRatio :
          /\ setRatio = Frac(s, 1)
          /\ getRatio = Frac(g, 1)
          /\ delRatio = Frac(d, 1)
    /\ totalRatio = 0
    /\ wg = 0
    /\ stop = FALSE
    /\ lock = Free
    /\ stats = [k \in Kinds |-> NewStats]
    /\ progress = [w \in Clients |-> ZeroCounts]
    /\ total = ZeroCounts
    /\ pc = [w \in Clients |-> "unspawned"]
    /\ kind = [w \in Clients |-> "none"]
    /\ dur = [w \in Clients |-> 0]
    /\ reg = [w \in Clients |-> NoReg]
    /\ reporterPc = "unstarted"
    /\ crashed = FALSE
    /\ printedTotals = [k \in Kinds |-> -1]
    /\ printedLat = [k \in Kinds |-> [min |-> -1, avg |-> -1, max |-> -1]]
    /\ ops = 0
    /\ err = [w \in Clients |-> "none"]
    /\ succeeded = ZeroCounts
    /\ failures = 0
    /\ recorded = [k \in Kinds |-> [d \in Latencies |-> 0]]
    /\ selDraw = -1
    /\ selKind = "none"

\* op := rand.Float64() and the branch the if-chain takes on it
SelectStep ==
    /\ mainPc = "ping"
    /\ \E dn \in Draws :
          /\ selDraw' = dn
          /\ selKind' = Select(Draw(dn), setRatio, getRatio)
    /\ UNCHANGED <<mainVars, workerVars, reporterPc, crashed>>

SelNext ==
    \/ Normalize
    \/ SelectStep

SelSpec == SelInit /\ [][SelNext]_vars

\* ------------------------------------------ the key generator on its own
\* main up to generateKeys, under every -keys up to MaxKeys and every prefix.
KeyInit ==
    /\ mainPc = "normalize"
    /\ spawnI = 0
    /\ pingErr = FALSE
    /\ numKeys \in 0..MaxKeys
    /\ keyPrefix \in Prefixes
    /\ keys = <<>>
    /\ setRatio = Frac(1, 1)
    /\ getRatio = Frac(1, 1)
    /\ delRatio = Frac(1, 1)
    /\ totalRatio = 0
    /\ wg = 0
    /\ stop = FALSE
    /\ lock = Free
    /\ stats = [k \in Kinds |-> NewStats]
    /\ progress = [w \in Clients |-> ZeroCounts]
    /\ total = ZeroCounts
    /\ pc = [w \in Clients |-> "unspawned"]
    /\ kind = [w \in Clients |-> "none"]
    /\ dur = [w \in Clients |-> 0]
    /\ reg = [w \in Clients |-> NoReg]
    /\ reporterPc = "unstarted"
    /\ crashed = FALSE
    /\ printedTotals = [k \in Kinds |-> -1]
    /\ printedLat = [k \in Kinds |-> [min |-> -1, avg |-> -1, max |-> -1]]
    /\ ops = 0
    /\ err = [w \in Clients |-> "none"]
    /\ succeeded = ZeroCounts
    /\ failures = 0
    /\ recorded = [k \in Kinds |-> [d \in Latencies |-> 0]]
    /\ selDraw = -1
    /\ selKind = "none"

KeyNext ==
    \/ Normalize
    \/ Ping
    \/ GenerateKeys

KeySpec == KeyInit /\ [][KeyNext]_vars

\* ------------------------------------------------------------ helpers
RECURSIVE SumOver(_, _)
SumOver(S, f) ==
    IF S = {} THEN 0
    ELSE LET x == CHOOSE y \in S : TRUE IN f[x] + SumOver(S \ {x}, f)

SetMin(S) == CHOOSE x \in S : \A y \in S : x <= y
SetMax(S) == CHOOSE x \in S : \A y \in S : x >= y

\* the latencies handed to updateStats for kind k so far
Calls(k) == SumOver(Latencies, recorded[k])
LatencySum(k) == SumOver(Latencies, [d \in Latencies |-> d * recorded[k][d]])
Seen(k) == {d \in Latencies : recorded[k][d] > 0}

InUpdate == {"statsLock", "statsWrite"}
RecordsComplete(k) == \A w \in Clients : ~(kind[w] = k /\ pc[w] \in InUpdate)

RunningPcs == {"top", "exec", "statsLock", "statsWrite", "ctrLock", "progInc",
               "totInc"}
Running(w) == pc[w] \in RunningPcs
Stopped(w) == pc[w] = "stopped"
ReportPcs == {"printTotals", "printSET", "printGET", "printDEL", "done"}
InFlight(k, S) == Cardinality({w \in Clients : kind[w] = k /\ pc[w] \in S})
ProgressSum(k) == SumOver(Clients, [w \in Clients |-> progress[w][k]])

\* ------------------------------------------------------------- claims

\* C1: once every updateStats call on a kind has completed, the kind's count
\* is the number of calls, totalTime the sum of the latencies handed in, and
\* minTime/maxTime their true minimum and maximum, whatever the interleaving.
NoLostUpdate ==
    \A k \in Kinds :
        RecordsComplete(k) =>
            /\ stats[k].count = Calls(k)
            /\ stats[k].totalTime = LatencySum(k)
            /\ (Calls(k) > 0 =>
                   /\ stats[k].minTime = SetMin(Seen(k))
                   /\ stats[k].maxTime = SetMax(Seen(k)))

\* two workers have both just finished recording different latencies of one kind
NoLostUpdateWitness ==
    \E k \in Kinds : \E w1 \in Clients : \E w2 \in Clients \ {w1} :
        /\ kind[w1] = k /\ pc[w1] = "ctrLock"
        /\ kind[w2] = k /\ pc[w2] = "ctrLock"
        /\ stats[k].count = 2
        /\ stats[k].minTime = 1
        /\ stats[k].maxTime = 2

\* C2: while main prints the final report every worker is Stopped.
ReportAfterJoin ==
    mainPc \in ReportPcs => \A w \in Clients : Stopped(w)

ReportAfterJoinWitness ==
    /\ mainPc = "printGET"
    /\ \E k \in Kinds : total[k] = 2
    /\ \A w \in Clients : progress[w]["set"] + progress[w]["get"]
                             + progress[w]["del"] = 1

\* C3: the return of a failed execute call changes no operationStats, no
\* progress entry and no total, and puts the worker back at the top of its
\* loop; and a run in which no call succeeded prints zero for every count.
FailureCountsNothing ==
    /\ [][failures' # failures =>
             /\ stats' = stats
             /\ progress' = progress
             /\ total' = total
             /\ \E w \in Clients :
                   /\ pc[w] = "exec"
                   /\ pc'[w] = "top"
                   /\ \A v \in Clients \ {w} : pc'[v] = pc[v]]_vars
    /\ [](mainPc = "done" /\ (\A k \in Kinds : succeeded[k] = 0) =>
             \A k \in Kinds : printedTotals[k] = 0 /\ stats[k].count = 0)

FailureCountsNothingWitness ==
    /\ mainPc = "done"
    /\ failures = 2
    /\ \A k \in Kinds : printedTotals[k] = 0

\* C4: a GET that returns redis.Nil goes down the success path: the get
\* count, the workers' get progress and the get total account for every GET
\* that returned a value or redis.Nil, and for no GET that returned another
\* error.
NilReadIsSuccess ==
    /\ stats["get"].count + InFlight("get", InUpdate) = succeeded["get"]
    /\ ProgressSum("get")
          + InFlight("get", InUpdate \cup {"ctrLock", "progInc"})
          = succeeded["get"]
    /\ total["get"]
          + InFlight("get", InUpdate \cup {"ctrLock", "progInc", "totInc"})
          = succeeded["get"]
    /\ \A w \in Clients :
          err[w] = "nil" => kind[w] = "get" /\ pc[w] \in RunningPcs \ {"top", "exec"}

NilReadIsSuccessWitness ==
    \E w \in Clients :
        /\ err[w] = "nil"
        /\ pc[w] = "totInc"
        /\ progress[w]["get"] = 1
        /\ stats["get"].count = 1
        /\ failures = 1

\* C5: when the final report is produced each total equals the count of the
\* kind's operationStats, and so does the total printed.
TotalsAgreeWithStats ==
    mainPc \in ReportPcs =>
        \A k \in Kinds :
            /\ total[k] = stats[k].count
            /\ (printedTotals[k] # -1 => printedTotals[k] = stats[k].count)

TotalsAgreeWithStatsWitness ==
    /\ mainPc = "done"
    /\ printedTotals["set"] = 1
    /\ printedTotals["del"] = 1

\* C6: once stop is closed every worker reaches Stopped and main finishes the
\* final report.
StopLeadsToReport ==
    stop ~> (mainPc = "done" /\ \A w \in Clients : Stopped(w))

\* the join itself: short of the runtime killing the process, closing stop
\* leads to the final report
JoinCompletesUnlessKilled ==
    stop ~> (crashed \/ (mainPc = "done" /\ \A w \in Clients : Stopped(w)))

\* C7: a worker is Running or Stopped; it becomes Stopped only from the top
\* of its loop and only with stop closed; a Stopped worker stays Stopped and
\* its progress is never written again; every change of a counter is a step
\* of a Running worker.
WorkerLifecycle ==
    /\ [](\A w \in Clients : pc[w] = "unspawned" \/ Running(w) \/ Stopped(w))
    /\ [][\A w \in Clients :
             /\ (~Stopped(w) /\ pc'[w] = "stopped" => pc[w] = "top" /\ stop)
             /\ (Stopped(w) => pc'[w] = "stopped" /\ progress'[w] = progress[w])]_vars
    /\ [][<<stats, progress, total>>' # <<stats, progress, total>> =>
             \E w \in Clients : Running(w) /\ pc'[w] # pc[w]]_vars

WorkerLifecycleWitness ==
    \E w \in Clients : \E v \in Clients :
        /\ Stopped(w)
        /\ progress[w]["set"] = 1
        /\ pc[v] = "progInc"

\* C8: with ratios s/t, g/t, d/t (t # 0) a draw n/DrawDen selects set when
\* it is below s/t, get when it is at or above s/t and below (s+g)/t, del
\* when it is at or above (s+g)/t.
SelectorPartitions ==
    (selKind # "none" /\ totalRatio # 0) =>
        LET s == setRatio.num
            g == getRatio.num
            t == totalRatio
        IN  /\ selKind \in Kinds
            /\ (selKind = "set" <=> selDraw * t < s * DrawDen)
            /\ (selKind = "get" <=> /\ selDraw * t >= s * DrawDen
                                    /\ selDraw * t < (s + g) * DrawDen)
            /\ (selKind = "del" <=> selDraw * t >= (s + g) * DrawDen)

\* a draw that equals the set/get boundary selects get
SelectorPartitionsWitness ==
    /\ selKind = "get"
    /\ setRatio.num > 0
    /\ totalRatio # 0
    /\ selDraw * totalRatio = setRatio.num * DrawDen

\* C9: with all three raw ratios zero the run never starts: no worker is
\* spawned, no operation is begun and nothing is printed.
ZeroRatiosRejected ==
    (mainPc # "normalize" /\ totalRatio = 0) =>
        /\ \A w \in Clients : pc[w] = "unspawned"
        /\ ops = 0
        /\ \A k \in Kinds : printedTotals[k] = -1 /\ printedLat[k].min = -1

\* C10: the latency line of a kind without samples shows 0.00 for min, avg
\* and max.
ZeroSampleShowsDefault ==
    \A k \in Kinds :
        (printedLat[k].min # -1 /\ stats[k].count = 0) =>
            printedLat[k] = [min |-> 0, avg |-> 0, max |-> 0]

\* C11: the latency line of a kind without samples goes with a count of 0
\* and shows 0.00 as the average; with samples the average shown is
\* totalTime/count to the nearest hundredth.
ZeroSampleAverage ==
    \A k \in Kinds :
        printedLat[k].avg # -1 =>
            /\ (stats[k].count = 0 =>
                   printedTotals[k] = 0 /\ printedLat[k].avg = 0)
            /\ (stats[k].count > 0 =>
                   LET diff == printedLat[k].avg * stats[k].count
                                  - 100 * stats[k].totalTime
                   IN  2 * diff <= stats[k].count /\ -2 * diff < stats[k].count)

\* one kind printed without samples, another with two samples averaging 1.50
ZeroSampleAverageWitness ==
    /\ mainPc = "done"
    /\ \E k \in Kinds : stats[k].count = 0 /\ printedLat[k].avg = 0
    /\ \E k \in Kinds : stats[k].count = 2 /\ printedLat[k].avg = 150

\* C12: when rdb.Ping fails main is at log.Fatalf and nothing else has
\* happened or happens: no key is generated, no worker and no reporter is
\* spawned, no operation is begun or recorded, nothing is printed.
PingFailureAborts ==
    pingErr =>
        /\ mainPc = "fatal"
        /\ keys = <<>>
        /\ \A w \in Clients : pc[w] = "unspawned"
        /\ reporterPc = "unstarted"
        /\ wg = 0
        /\ ops = 0
        /\ stats = [k \in Kinds |-> NewStats]
        /\ total = ZeroCounts
        /\ \A k \in Kinds : printedTotals[k] = -1 /\ printedLat[k].min = -1

PingFailureAbortsWitness ==
    pingErr /\ mainPc = "fatal" /\ totalRatio = 3

\* C13: with normalized ratios 1, 0, 0 every operation selected is a SET:
\* the get and del counts, totals and progress entries stay 0 and are
\* printed as 0; and when no call failed and an iteration was run the set
\* count printed is above 0.
WriteOnlyRun ==
    (mainPc # "normalize" /\ totalRatio # 0 /\ setRatio.num = totalRatio
        /\ getRatio.num = 0 /\ delRatio.num = 0) =>
        /\ \A w \in Clients : kind[w] \in {"none", "set"}
        /\ \A k \in {"get", "del"} :
              /\ stats[k].count = 0
              /\ total[k] = 0
              /\ succeeded[k] = 0
              /\ \A w \in Clients : progress[w][k] = 0
              /\ printedTotals[k] \in {-1, 0}
        /\ (mainPc = "done" /\ failures = 0 /\ ops > 0 =>
               printedTotals["set"] > 0 /\ stats["set"].count > 0)

WriteOnlyRunWitness ==
    /\ mainPc = "done"
    /\ setRatio.num = totalRatio /\ getRatio.num = 0 /\ delRatio.num = 0
    /\ failures = 0
    /\ printedTotals = [k \in Kinds |-> IF k = "set" THEN 2 ELSE 0]
    /\ \A w \in Clients : progress[w]["set"] = 1

\* the decimal value of a string of digits
DigitValue(c) == CHOOSE v \in 0..9 : Digits[v + 1] = c
RECURSIVE ParseDec(_)
ParseDec(str) ==
    IF str = <<>> THEN 0
    ELSE 10 * ParseDec(SubSeq(str, 1, Len(str) - 1)) + DigitValue(str[Len(str)])
IsDecimal(str) ==
    /\ Len(str) >= 1
    /\ \A j \in 1..Len(str) : \E v \in 0..9 : Digits[v + 1] = str[j]
    /\ (Len(str) > 1 => str[1] # "0")

\* C14: generateKeys(count, prefix) returns exactly count strings; element i
\* (from zero) is the prefix followed by the decimal numeral of i; the
\* elements are pairwise distinct; count = 0 gives the empty sequence.  The
\* result is fixed by the arguments, so equal arguments give equal results.
KeysAreIndexed ==
    mainPc = "spawn" =>
        /\ Len(keys) = numKeys
        /\ (numKeys = 0 => keys = <<>>)
        /\ \A i \in 1..Len(keys) :
              LET p == Len(keyPrefix)
                  suffix == SubSeq(keys[i], p + 1, Len(keys[i]))
              IN  /\ Len(keys[i]) > p
                  /\ SubSeq(keys[i], 1, p) = keyPrefix
                  /\ IsDecimal(suffix)
                  /\ ParseDec(suffix) = i - 1
        /\ \A i \in 1..Len(keys) : \A j \in 1..Len(keys) :
              i # j => keys[i] # keys[j]

\* eleven keys under a prefix that ends in a digit: "k10" and "k110" both occur
KeysAreIndexedWitness ==
    /\ mainPc = "spawn"
    /\ numKeys = 11
    /\ keyPrefix = <<"k", "1">>
    /\ keys[1] = <<"k", "1", "0">>
    /\ keys[11] = <<"k", "1", "1", "0">>

\* C15: across every step count and totalTime of each kind never decrease,
\* minTime never increases and maxTime never decreases; and whenever a kind
\* has count > 0 and its mutex is free, minTime <= maxTime.
StatsMonotonic ==
    /\ [][\A k \in Kinds :
            /\ stats'[k].count >= stats[k].count
            /\ stats'[k].totalTime >= stats[k].totalTime
            /\ stats'[k].minTime <= stats[k].minTime
            /\ stats'[k].maxTime >= stats[k].maxTime]_vars
    /\ [](\A k \in Kinds :
            (stats[k].count > 0 /\ stats[k].mu = Free) =>
                stats[k].minTime <= stats[k].maxTime)

\* a kind that took the latency 2 first and 1 second, no update in progress
StatsMonotonicWitness ==
    \E k \in Kinds :
        /\ stats[k] = [minTime |-> 1, maxTime |-> 2, totalTime |-> 3,
                       count |-> 2, mu |-> Free]
        /\ \A w \in Clients : pc[w] = "top"
        /\ \E j \in Kinds \ {k} : stats[j].minTime = MaxFloat64

\* C16: a successful operation of kind k by worker w adds exactly 1 to
\* stats[k].count, to progress[w][k] and to total[k], each in a step of w
\* itself that changes no other kind's counter and no other worker's
\* progress map; so each counter of k is the number of successful calls of k
\* less those of workers that have not reached its increment yet.
SuccessIncrementsOwnCounters ==
    /\ [][/\ \A v \in Clients :
               progress'[v] # progress[v] =>
                   /\ pc[v] = "progInc" /\ pc'[v] = "totInc"
                   /\ progress'[v] = [progress[v] EXCEPT ![kind[v]] = @ + 1]
                   /\ \A u \in Clients \ {v} : progress'[u] = progress[u]
          /\ \A k \in Kinds :
               Fields(stats'[k]) # Fields(stats[k]) =>
                   /\ stats'[k].count = stats[k].count + 1
                   /\ \E w \in Clients :
                         /\ pc[w] = "statsWrite" /\ pc'[w] = "ctrLock"
                         /\ kind[w] = k
                   /\ \A j \in Kinds \ {k} : stats'[j] = stats[j]
          /\ total' # total =>
               \E w \in Clients :
                   /\ pc[w] = "totInc" /\ pc'[w] = "top"
                   /\ total' = [total EXCEPT ![kind[w]] = @ + 1]
          /\ \A w \in Clients :
               pc[w] \in {"statsLock", "statsWrite", "ctrLock", "progInc"} =>
                   kind'[w] = kind[w]]_vars
    /\ [](\A k \in Kinds :
            /\ stats[k].count = Calls(k) - InFlight(k, InUpdate)
            /\ ProgressSum(k) =
                   Calls(k) - InFlight(k, InUpdate \cup {"ctrLock", "progInc"})
            /\ total[k] =
                   Calls(k) - InFlight(k, InUpdate \cup
                                          {"ctrLock", "progInc", "totInc"}))

\* worker 2 has finished one successful operation and worker 1 none
SuccessIncrementsOwnCountersWitness ==
    \E k \in Kinds :
        /\ pc[2] = "top" /\ pc[1] = "exec"
        /\ progress[2] = [ZeroCounts EXCEPT ![k] = 1]
        /\ progress[1] = ZeroCounts
        /\ total = [ZeroCounts EXCEPT ![k] = 1]
        /\ \A j \in Kinds : stats[j].count = IF j = k THEN 1 ELSE 0

\* the workers between the loads and the stores of updateStats on kind k
Updating(k) == {w \in Clients : kind[w] = k /\ pc[w] = "statsWrite"}

\* C17: at most one worker is between the loads and the stores of a kind's
\* updateStats, and it holds that kind's mutex; a worker about to lock a
\* kind's mutex can do so whenever no worker is updating that same kind,
\* whatever the workers updating the other kinds do.
PerKindMutex ==
    /\ \A k \in Kinds :
          /\ Cardinality(Updating(k)) <= 1
          /\ \A w \in Updating(k) : stats[k].mu = w
          /\ (Updating(k) = {} => stats[k].mu = Free)
    /\ \A w \in Clients :
          (pc[w] = "statsLock" /\ Alive /\ Updating(kind[w]) = {}) =>
              ENABLED StatsLock(w)

\* one worker inside the update of one kind while the other is about to
\* lock another kind
PerKindMutexWitness ==
    \E w \in Clients : \E v \in Clients \ {w} :
        /\ pc[w] = "statsWrite" /\ pc[v] = "statsLock"
        /\ kind[w] # kind[v]
        /\ Alive

\* C18: whenever lock is free, total[k] is the sum of progress[w][k] over
\* the workers, for each kind.
TotalIsProgressSum ==
    lock = Free => \A k \in Kinds : total[k] = ProgressSum(k)

TotalIsProgressSumWitness ==
    \E k \in Kinds :
        /\ lock = Free
        /\ total[k] = 2
        /\ \A w \in Clients : progress[w][k] = 1

\* between the return of updateStats and the end of *total++
Uncounted == {"ctrLock", "progInc", "totInc"}

\* C19: for each kind, stats[k].count is at least total[k] and exceeds it by
\* at most the number of workers: the difference is the number of workers
\* that have recorded a latency of the kind and not yet counted it.
CountLeadsTotal ==
    \A k \in Kinds :
        /\ stats[k].count - total[k] >= 0
        /\ stats[k].count - total[k] <= NumClients
        /\ stats[k].count - total[k] = InFlight(k, Uncounted)

\* every worker has recorded a latency of kind k and none has counted it
CountLeadsTotalWitness ==
    \E k \in Kinds :
        /\ stats[k].count - total[k] = NumClients
        /\ \A w \in Clients : kind[w] = k /\ pc[w] \in {"ctrLock", "progInc"}

\* the workers inside an iteration, and the operations counted so far
EnteredPcs == RunningPcs \ {"top"}
Entered == Cardinality({w \in Clients : pc[w] \in EnteredPcs})
SumTotals == SumOver(Kinds, total)

\* C20: once stop is closed no worker enters another iteration, so each
\* completes at most the one it is in; that one still runs to its end and
\* its success is in the final report; and from any state after the close
\* the sum of the totals can grow by at most the number of workers then
\* inside an iteration, which is at most NumClients.
StopBoundsOvershoot ==
    /\ [][stop =>
            /\ \A w \in Clients :
                  pc[w] \in {"top", "stopped"} => pc'[w] \in {"top", "stopped"}
            /\ Entered' <= Entered
            /\ SumTotals' + Entered' <= SumTotals + Entered]_vars
    /\ [](stop /\ Alive =>
            \A w \in Clients :
                pc[w] \in {"exec", "statsWrite", "progInc", "totInc"} =>
                    ENABLED WorkerStep(w))
    /\ [](Entered <= NumClients)
    /\ [](mainPc \in ReportPcs =>
            /\ Entered = 0
            /\ \A k \in Kinds : total[k] = Calls(k))

\* stop is closed, one worker has returned and the other is about to count
\* the operation it was in
StopBoundsOvershootWitness ==
    /\ stop
    /\ \E w \in Clients : \E v \in Clients \ {w} :
          /\ pc[w] = "totInc"
          /\ pc[v] = "stopped"
          /\ total[kind[w]] = 0

\* the locks worker w holds, and whether it waits for one that is held
HoldsMu(w) == {k \in Kinds : stats[k].mu = w}
HoldsLock(w) == lock = w
Blocked(w) ==
    \/ pc[w] = "statsLock" /\ stats[kind[w]].mu # Free
    \/ pc[w] = "ctrLock" /\ lock # Free

\* C21: no worker holds a kind's mutex and lock together; a mutex is held
\* only between the loads and stores of updateStats and lock only around the
\* two increments, so none is held at the top of the loop, during the Redis
\* call or after the return; the holder of a lock never waits for a lock, so
\* whenever some worker is running, one of the running workers is not
\* blocked, and a worker waiting for a free lock can take it.
NoLockHeldAcross ==
    /\ \A w \in Clients :
          /\ ~(HoldsMu(w) # {} /\ HoldsLock(w))
          /\ (HoldsMu(w) # {} => pc[w] = "statsWrite" /\ HoldsMu(w) = {kind[w]})
          /\ (HoldsLock(w) => pc[w] \in {"progInc", "totInc"})
          /\ (pc[w] \in {"unspawned", "top", "exec", "stopped"} =>
                 HoldsMu(w) = {} /\ ~HoldsLock(w))
          /\ (Blocked(w) =>
                 \E h \in Clients \ {w} :
                     /\ Running(h) /\ ~Blocked(h)
                     /\ (Alive => ENABLED WorkerStep(h)))
          /\ (pc[w] \in {"statsLock", "ctrLock"} /\ ~Blocked(w) /\ Alive =>
                 ENABLED WorkerStep(w))
    /\ \A k \in Kinds : stats[k].mu \in Clients \cup {Free}
    /\ lock \in Clients \cup {Free}
    /\ ((\E w \in Clients : Running(w)) =>
           \E w \in Clients : Running(w) /\ ~Blocked(w))

\* one worker holds lock at the increments while the other waits for it,
\* the mutex of their kind already released
NoLockHeldAcrossWitness ==
    \E w \in Clients : \E v \in Clients \ {w} :
        /\ pc[w] = "progInc" /\ lock = w
        /\ pc[v] = "ctrLock" /\ Blocked(v)
        /\ kind[v] = kind[w]
        /\ stats[kind[w]].mu = Free
        /\ stats[kind[w]].count = 2

====
